---- MODULE Spec2Model ----
(***************************************************************************)
(* State-machine model of drivers/net/mlx5/mlx5_vdpa.c: the registry of    *)
(* vDPA device contexts, capability negotiation at probe, the configure /  *)
(* close lifecycle with its hardware objects, and the notify relay thread. *)
(***************************************************************************)
EXTENDS Integers, Sequences, FiniteSets, TLC

(* ------------------------------ bounds --------------------------------- *)
\* largest vring count a guest session reports
MaxVring == 3
\* cap on the number of kicks signalled and not yet read
MaxKick == 2
\* number of hardware objects the accelerator creates
MaxObj == 3
\* number of doorbell mappings, and of threads, the system grants
MaxRelay == 1

(* ------------------------- program constants --------------------------- *)
MLX5_VDPA_SW_MAX_VIRTQS_SUPPORTED == 1
\* bit masks are the sets of their bit positions
MLX5_VDPA_FEATURES == {30, 32}
MLX5_VDPA_PROTOCOL_FEATURES == {5, 10, 11}
\* number of elements of vdpa_priv.virtq and of the relay's events buffer
VirtqSlots == MLX5_VDPA_SW_MAX_VIRTQS_SUPPORTED * 2
NULL == 0

(* ------------------------- environment values -------------------------- *)
\* PCI devices the bus probes; one vdpa_priv is allocated per probe
PciDevs == {1, 2}
\* ids rte_vdpa_register_device can return on success
Dids == {0, 1}
\* vhost session ids (vid) of the guest sessions that exist
Vids == {0}
\* the values a healthy accelerator reports for its fill key and for
\* max_num_of_virtqs of the emulation capability section
FillKeys == {7}
HwMaxVirtqs == {4}

\* values returned by the glue / libc calls for the n-th handle handed out
ObjHandle(n) == 100 + n
ObjNumber(n) == 1000 + n
ThreadId(n) == 200 + n
PageAddr(n) == 300 + n
EpollFd(n) == 2 + n
\* kick eventfd of vring q of session vid (rte_vhost_get_vhost_vring)
KickFd(vid, q) == 10 + (8 * vid) + q

VARIABLES
    priv_list,   \* TAILQ of registry elements: sequence of priv addresses
    privs,       \* heap: priv address -> struct vdpa_priv
    bus,         \* PCI devices present on the bus
    grant,       \* how many objects (obj) the accelerator creates and how
                 \* many pages and threads (relay) the system grants
    probed,      \* PCI devices the bus has probed
    vdpa_ids,    \* ids rte_vdpa_register_device has handed out
    sess,        \* vhost library: vid -> [did, nr] of the guest session
    live,        \* hardware objects created and not destroyed (handles)
    nextId,      \* numbers of the next object, page and thread handed out
    mapped,      \* doorbell pages currently mapped
    openFds,     \* open descriptors among stdin and the epoll descriptors
    thr,         \* relay threads: tid -> thread state
    kick,        \* eventfd counters of the kick descriptors
    oob,         \* virtq / events indices accessed at or above VirtqSlots
    crashed,     \* the process was terminated by undefined behaviour
    ret,         \* the last call completed: what it was, what it returned
    log,         \* library and hardware calls issued by the last / current call
    pend         \* the dev_close blocked in pthread_join: <<[vid, priv, tid]>>, or <<>>

vars == <<priv_list, privs, bus, grant, probed, vdpa_ids, sess, live, nextId,
          mapped, openFds, thr, kick, oob, crashed, ret, log, pend>>

(* --------------------------- data structures --------------------------- *)
\* rte_zmalloc'ed struct vdpa_priv
ZeroPriv ==
    [id |-> 0, vid |-> 0, pdn |-> 0, nr_vring |-> 0, pd_obj |-> NULL,
     dev_attached |-> 0, ctx |-> NULL,
     caps |-> [dump_mkey |-> 0, max_num_virtqs |-> 0,
               virtio_net_features |-> {}, virtio_protocol_features |-> {}],
     virtq |-> [i \in 0..(VirtqSlots - 1) |-> [rqn |-> 0, rq_obj |-> NULL]],
     relay |-> [epfd |-> 0, tid |-> 0, notify_base |-> NULL]]

\* facts of an accelerator: the dump_fill_mkey capability bit, the fill key,
\* the VIRTQ bit of general_obj_types and max_num_of_virtqs of the emulation
\* capability section (read only when the VIRTQ bit is set)
AccelFacts ==
    [dump_fill_mkey : BOOLEAN, dump_mkey : FillKeys, virtq : {FALSE},
     max_num_of_virtqs : {0}]
    \cup
    [dump_fill_mkey : BOOLEAN, dump_mkey : FillKeys, virtq : {TRUE},
     max_num_of_virtqs : HwMaxVirtqs]
\* no accelerator: the facts field of a call that queries none
NoAccel ==
    [dump_fill_mkey |-> FALSE, dump_mkey |-> 0, virtq |-> FALSE,
     max_num_of_virtqs |-> 0]

(* ------------------------------ registry ------------------------------- *)
\* the lookup as it would be if it compared priv->vid
find_priv_resource_by_did_wrong_field(did) ==
    LET hits == {k \in 1..Len(priv_list) : privs[priv_list[k]].vid = did}
    IN  IF hits = {} THEN NULL
        ELSE CHOOSE k \in hits : \A j \in hits : k <= j

\* the first list element whose priv->id is did, NULL when there is none;
\* a list element is its position in priv_list, its priv is priv_list[k]
find_priv_resource_by_did(did) ==
    LET hits == {k \in 1..Len(priv_list) : privs[priv_list[k]].id = did}
    IN  IF hits = {} THEN NULL
        ELSE CHOOSE k \in hits : \A j \in hits : k <= j

mlx5_vdpa_get_queue_num(did) ==
    LET list_elem == find_priv_resource_by_did(did)
    IN  IF list_elem = NULL THEN [rc |-> -1, out |-> 0]
        ELSE [rc |-> 0, out |-> privs[priv_list[list_elem]].caps.max_num_virtqs]

mlx5_vdpa_get_vdpa_features(did) ==
    LET list_elem == find_priv_resource_by_did(did)
    IN  IF list_elem = NULL THEN [rc |-> -1, out |-> {}]
        ELSE [rc |-> 0,
              out |-> privs[priv_list[list_elem]].caps.virtio_net_features]

mlx5_vdpa_get_protocol_features(did) ==
    LET list_elem == find_priv_resource_by_did(did)
    IN  IF list_elem = NULL THEN [rc |-> -1, out |-> {}]
        ELSE [rc |-> 0,
              out |-> privs[priv_list[list_elem]].caps.virtio_protocol_features]

(* ----------------------- capability negotiation ------------------------ *)
\* the negotiation as it would be if a failed emulation query were ignored
mlx5_vdpa_query_virtio_caps_ignores_emulation(p, a, r) ==
    IF ~r.general \/ ~a.dump_fill_mkey \/ ~r.special
    THEN [rc |-> -1, priv |-> p]
    ELSE [rc |-> 0,
          priv |-> [p EXCEPT
              !.caps.dump_mkey = a.dump_mkey,
              !.caps.max_num_virtqs = MLX5_VDPA_SW_MAX_VIRTQS_SUPPORTED,
              !.caps.virtio_net_features = MLX5_VDPA_FEATURES,
              !.caps.virtio_protocol_features = MLX5_VDPA_PROTOCOL_FEATURES]]

\* a: the accelerator's facts; r: which of the three devx commands succeed.
\* The result is [rc, priv]: the return value and the priv as written.
mlx5_vdpa_query_virtio_caps(p, a, r) ==
    IF ~r.general THEN [rc |-> -1, priv |-> p]
    ELSE IF ~a.dump_fill_mkey THEN [rc |-> -1, priv |-> p]
    ELSE IF ~r.special THEN [rc |-> -1, priv |-> p]
    ELSE
      LET p1 == [p EXCEPT !.caps.dump_mkey = a.dump_mkey]
      IN  IF a.virtq /\ ~r.emulation THEN [rc |-> -1, priv |-> p1]
          ELSE
            LET p2 == IF a.virtq
                      THEN [p1 EXCEPT !.caps.max_num_virtqs =
                                          a.max_num_of_virtqs % (2^16)]
                      ELSE [p1 EXCEPT !.caps.max_num_virtqs =
                                          MLX5_VDPA_SW_MAX_VIRTQS_SUPPORTED]
            IN  [rc |-> 0,
                 priv |-> [p2 EXCEPT
                     !.caps.max_num_virtqs = MLX5_VDPA_SW_MAX_VIRTQS_SUPPORTED,
                     !.caps.virtio_net_features = MLX5_VDPA_FEATURES,
                     !.caps.virtio_protocol_features =
                         MLX5_VDPA_PROTOCOL_FEATURES]]

\* the outcomes of the three devx commands of the negotiation
CmdResults == [general : BOOLEAN, special : BOOLEAN, emulation : BOOLEAN]
\* no command issued: the outcomes field of a call that queries nothing
NoCmd == [general |-> FALSE, special |-> FALSE, emulation |-> FALSE]

\* rte_vdpa_register_device: the lowest free id, -1 when full is TRUE (no
\* slot is free) or every id is taken
rte_vdpa_register_device(full) ==
    IF full \/ Dids \ vdpa_ids = {} THEN -1
    ELSE CHOOSE id \in Dids \ vdpa_ids : \A j \in Dids \ vdpa_ids : id <= j

\* Probe of PCI device pci; the bus probes its devices once each, in the
\* order of their addresses. opened: whether a matching IB device was
\* found and opened and both allocations succeeded; a, r: the
\* accelerator's facts and command results.
mlx5_vdpa_pci_probe(pci) ==
    /\ ~crashed
    /\ pci \in bus \ probed
    /\ \A other \in bus \ probed : pci <= other
    /\ probed' = probed \cup {pci}
    /\ \E opened \in BOOLEAN, a \in AccelFacts \cup {NoAccel},
          r \in CmdResults, full \in BOOLEAN :
         LET q == mlx5_vdpa_query_virtio_caps([ZeroPriv EXCEPT !.ctx = pci], a, r)
             id == rte_vdpa_register_device(full)
             registered == opened /\ q.rc = 0
             published == registered /\ id >= 0
         IN  /\ (~opened => (a = NoAccel /\ r = NoCmd))
             /\ (q.rc # 0 => ~full)
             /\ IF published
                THEN /\ privs' = (pci :> [q.priv EXCEPT !.id = id]) @@ privs
                     /\ priv_list' = Append(priv_list, pci)
                ELSE UNCHANGED <<privs, priv_list>>
             /\ vdpa_ids' = IF published THEN vdpa_ids \cup {id} ELSE vdpa_ids
             /\ ret' = [op |-> "probe", vid |-> pci,
                        rc |-> IF published THEN 0 ELSE -1,
                        hw |-> IF opened THEN a ELSE NoAccel,
                        cmd |-> IF opened THEN r ELSE NoCmd, id |-> id]
    /\ UNCHANGED <<bus, grant, sess, live, nextId, mapped, openFds, thr, kick, oob,
                   crashed, log, pend>>

(* ------------------------- vhost library state ------------------------- *)
rte_vhost_get_vdpa_device_id(vid) == sess[vid].did

\* 0 when the vhost library has no device of that vid
rte_vhost_get_vring_num(vid) == IF vid \in DOMAIN sess THEN sess[vid].nr ELSE 0

(* --------------------- sequential code on the heap --------------------- *)
\* The memory and resources one call works on. rc is the return value of the
\* function modelled last; ub tells what undefined behaviour does in this
\* call: "crash" terminates the process at its first occurrence, "go" lets
\* the call run on with the effect the LP64 layout of vdpa_priv gives it.
Machine(ub) ==
    [privs |-> privs, live |-> live, nextId |-> nextId, mapped |-> mapped,
     openFds |-> openFds, thr |-> thr, oob |-> oob, crashed |-> FALSE,
     log |-> <<>>, rc |-> 0, ub |-> ub]

Logged(m, op, arg, res) ==
    [m EXCEPT !.log = Append(@, [op |-> op, arg |-> arg, res |-> res])]

\* an occurrence of undefined behaviour
Undefined(m) == IF m.ub = "crash" THEN [m EXCEPT !.crashed = TRUE] ELSE m

\* priv->virtq[idx] = {rqn, rq_obj}. The array has VirtqSlots elements and
\* struct mlx5_vdpa_relay_thread follows it: element VirtqSlots lies on
\* relay.epfd (rqn) and relay.tid (rq_obj), later ones outside the priv.
virtq_store(m, a, idx, rqn, rq_obj) ==
    IF idx < VirtqSlots
    THEN [m EXCEPT !.privs[a].virtq[idx] = [rqn |-> rqn, rq_obj |-> rq_obj]]
    ELSE LET m1 == Undefined([m EXCEPT !.oob = @ \cup {idx}])
         IN  IF m1.crashed \/ idx > VirtqSlots THEN m1
             ELSE [m1 EXCEPT !.privs[a].relay.epfd = rqn,
                             !.privs[a].relay.tid = rq_obj]

\* priv->virtq[idx].rqn = rqn
virtq_store_rqn(m, a, idx, rqn) ==
    IF idx < VirtqSlots
    THEN [m EXCEPT !.privs[a].virtq[idx].rqn = rqn]
    ELSE LET m1 == Undefined([m EXCEPT !.oob = @ \cup {idx}])
         IN  IF m1.crashed \/ idx > VirtqSlots THEN m1
             ELSE [m1 EXCEPT !.privs[a].relay.epfd = rqn]

\* the value of priv->virtq[idx].rq_obj
virtq_rq_obj(m, a, idx) ==
    IF idx < VirtqSlots THEN m.privs[a].virtq[idx].rq_obj
    ELSE IF idx = VirtqSlots THEN m.privs[a].relay.tid
    ELSE NULL

\* create_pd as it would be if it returned 0 when no object is created
create_pd_hides_failure(m, a, ok) ==
    IF ~ok THEN [Logged(m, "create_pd", NULL, "fail") EXCEPT !.rc = 0]
    ELSE LET h == ObjHandle(m.nextId.obj)
         IN  [Logged(m, "create_pd", h, "ok") EXCEPT
                 !.live = @ \cup {h}, !.nextId.obj = @ + 1,
                 !.privs[a].pdn = ObjNumber(m.nextId.obj),
                 !.privs[a].pd_obj = h, !.rc = 0]

\* ok: whether dv_devx_obj_create returns an object
create_pd(m, a, ok) ==
    IF ~ok THEN [Logged(m, "create_pd", NULL, "fail") EXCEPT !.rc = -1]
    ELSE LET h == ObjHandle(m.nextId.obj)
         IN  [Logged(m, "create_pd", h, "ok") EXCEPT
                 !.live = @ \cup {h}, !.nextId.obj = @ + 1,
                 !.privs[a].pdn = ObjNumber(m.nextId.obj),
                 !.privs[a].pd_obj = h, !.rc = 0]

create_rq(m, a, idx, ok) ==
    IF ~ok THEN [Logged(m, "create_rq", idx, "fail") EXCEPT !.rc = -1]
    ELSE LET h == ObjHandle(m.nextId.obj)
             m1 == [Logged(m, "create_rq", idx, "ok") EXCEPT
                       !.live = @ \cup {h}, !.nextId.obj = @ + 1]
         IN  [virtq_store(m1, a, idx, ObjNumber(m.nextId.obj), h) EXCEPT
                 !.rc = 0]

\* the loop of mlx5_vdpa_setup_rx from index i on; okset: the indices whose
\* create_rq succeeds
RECURSIVE setup_rx_from(_, _, _, _, _)
setup_rx_from(m, a, i, nr_vring, okset) ==
    IF m.crashed \/ ~(i < nr_vring) THEN m
    ELSE IF i = 0 \/ i % 2 = 0
    THEN LET m1 == create_rq(m, a, i, i \in okset)
             m2 == IF m1.rc # 0 /\ ~m1.crashed
                   THEN Logged(m1, "log_err_create_rq", i, "")
                   ELSE m1
         IN  setup_rx_from(m2, a, i + 1, nr_vring, okset)
    ELSE setup_rx_from(m, a, i + 1, nr_vring, okset)

\* the setup as it would be if it kept the vring count in the capability
\* set instead of priv->nr_vring
mlx5_vdpa_setup_rx_counts_in_caps(m, a, okset) ==
    LET nr_vring == rte_vhost_get_vring_num(m.privs[a].vid)
        m1 == setup_rx_from(m, a, 0, nr_vring, okset)
    IN  IF m1.crashed THEN m1
        ELSE [m1 EXCEPT !.privs[a].caps.max_num_virtqs = nr_vring % (2^16),
                        !.rc = 0]

mlx5_vdpa_setup_rx(m, a, okset) ==
    LET nr_vring == rte_vhost_get_vring_num(m.privs[a].vid)
        m1 == setup_rx_from(m, a, 0, nr_vring, okset)
    IN  IF m1.crashed THEN m1
        ELSE [m1 EXCEPT !.privs[a].nr_vring = nr_vring % (2^16), !.rc = 0]

\* a relay thread just created by pthread_create, not yet run
NewThread(a) ==
    [priv |-> a, pc |-> "start", cancel |-> FALSE, epfd |-> -1, q_num |-> 0,
     regs |-> {}, events |-> <<>>, i |-> 0, buf |-> 0, wrote |-> <<>>,
     err |-> ""]

\* mm: whether mmap succeeds; th: "ok", or pthread_create fails leaving
\* relay.tid as it was ("fail") or holding the id of no thread ("fail_set")
mlx5_vdpa_setup_notify_relay(m, a, mm, th) ==
    IF ~mm THEN [Logged(m, "mmap", NULL, "fail") EXCEPT !.rc = -1]
    ELSE
      LET addr == PageAddr(m.nextId.page)
          m1 == [Logged(m, "mmap", addr, "ok") EXCEPT
                    !.mapped = @ \cup {addr}, !.nextId.page = @ + 1,
                    !.privs[a].relay.notify_base = addr]
          tid == ThreadId(m.nextId.thread)
      IN  IF th = "ok"
          THEN [Logged(m1, "pthread_create", tid, "ok") EXCEPT
                   !.thr = (tid :> NewThread(a)) @@ @, !.nextId.thread = @ + 1,
                   !.privs[a].relay.tid = tid, !.rc = 0]
          ELSE IF th = "fail_set"
          THEN [Logged(m1, "pthread_create", tid, "fail") EXCEPT
                   !.nextId.thread = @ + 1, !.privs[a].relay.tid = tid,
                   !.rc = -1]
          ELSE [Logged(m1, "pthread_create", NULL, "fail") EXCEPT !.rc = -1]

\* What the environment decides during one dev_conf of session vid: whether
\* the PD is created, the vring indices whose RQ is created, whether mmap
\* and pthread_create succeed, and what undefined behaviour does. A
\* decision the call cannot come to consult has one value.
ConfigOutcomes(vid) ==
    {o \in [pd : BOOLEAN, rq : SUBSET {i \in 0..MaxVring : i % 2 = 0},
            mm : BOOLEAN, th : {"ok", "fail", "fail_set"},
            ub : {"go", "crash"}] :
        /\ o.rq \subseteq 0..(rte_vhost_get_vring_num(vid) - 1)
        /\ (~o.pd => (o.rq = {} /\ ~o.mm /\ o.ub = "go"))
        /\ (~o.mm => o.th = "fail")}

\* the body of mlx5_vdpa_dev_config from the registry lookup on; the result
\* is the machine at the return, rc the value returned
dev_config_body(vid, o) ==
    LET did == rte_vhost_get_vdpa_device_id(vid)
        list_elem == find_priv_resource_by_did(did)
        m0 == Machine(o.ub)
    IN  IF list_elem = NULL THEN [m0 EXCEPT !.rc = -1]
        ELSE
          LET a == priv_list[list_elem]
              m1 == create_pd([m0 EXCEPT !.privs[a].vid = vid], a, o.pd)
          IN  IF m1.rc # 0 THEN [m1 EXCEPT !.rc = -1]
              ELSE
                LET m2 == mlx5_vdpa_setup_rx(m1, a, o.rq)
                IN  IF m2.crashed THEN m2
                    ELSE IF m2.rc # 0 THEN [m2 EXCEPT !.rc = -1]
                    ELSE
                      LET m3 == mlx5_vdpa_setup_notify_relay(m2, a, o.mm, o.th)
                      IN  [m3 EXCEPT !.privs[a].dev_attached = 1, !.rc = 0]

\* the heap, the resources and the result of a call that has returned; of
\* a call that crashed, the calls it had issued and the fact of the crash
Commit(m, op, vid) ==
    /\ IF m.crashed
       THEN UNCHANGED <<privs, live, nextId, mapped, openFds, thr>>
       ELSE /\ privs' = m.privs
            /\ live' = m.live
            /\ nextId' = m.nextId
            /\ mapped' = m.mapped
            /\ openFds' = m.openFds
            /\ thr' = m.thr
    /\ oob' = m.oob
    /\ crashed' = m.crashed
    /\ log' = m.log
    /\ ret' = [op |-> IF m.crashed THEN "crash" ELSE op, vid |-> vid,
               rc |-> IF m.crashed THEN 0 ELSE m.rc, hw |-> NoAccel,
               cmd |-> NoCmd, id |-> -1]

\* vhost calls dev_conf and dev_close of a session one after the other,
\* and after rte_eal_init has probed the bus
mlx5_vdpa_dev_config(vid) ==
    /\ ~crashed
    /\ probed = bus
    /\ pend = <<>>
    /\ \E o \in ConfigOutcomes(vid) :
         LET m == dev_config_body(vid, o)
         IN  /\ (o.ub = "crash" => m.crashed)
             /\ m.nextId.obj <= grant.obj + 1
             /\ m.nextId.page <= grant.relay + 1
             /\ m.nextId.thread <= grant.relay + 1
             /\ Commit(m, "dev_conf", vid)
    /\ UNCHANGED <<priv_list, bus, grant, probed, vdpa_ids, sess, kick, pend>>

(* -------------------------------- close -------------------------------- *)
\* mlx5_glue->dv_devx_obj_destroy(h); ok: whether the command succeeds.
\* Destroying what is no live object (NULL, an object already destroyed, a
\* value that never was an object) is undefined: it crashes, or returns
\* either value and changes no object.
dv_devx_obj_destroy(m, h, ok) ==
    IF h \in m.live
    THEN IF ok
         THEN [Logged(m, "destroy", h, "ok") EXCEPT !.live = @ \ {h}, !.rc = 0]
         ELSE [Logged(m, "destroy", h, "fail") EXCEPT !.rc = -1]
    ELSE [Undefined(Logged(m, "destroy", h, "undefined")) EXCEPT
             !.rc = IF ok THEN 0 ELSE -1]

\* the loop of mlx5_vdpa_release_rx from index i on; okset: the indices
\* whose destroy succeeds
RECURSIVE release_rx_from(_, _, _, _)
release_rx_from(m, a, i, okset) ==
    IF m.crashed THEN m
    ELSE IF ~(i < m.privs[a].nr_vring) THEN [m EXCEPT !.rc = 0]
    ELSE IF i = 0 \/ i % 2 = 0
    THEN LET m0 == IF i < VirtqSlots THEN m
                   ELSE Undefined([m EXCEPT !.oob = @ \cup {i}])
             m1 == IF m0.crashed THEN m0
                   ELSE dv_devx_obj_destroy(m0, virtq_rq_obj(m0, a, i),
                                            i \in okset)
         IN  IF m1.crashed THEN m1
             ELSE IF m1.rc # 0 THEN [m1 EXCEPT !.rc = -1]
             ELSE release_rx_from(virtq_store_rqn(m1, a, i, 0), a, i + 1, okset)
    ELSE release_rx_from(m, a, i + 1, okset)

\* the release as it would be if it went on to the next vring after a
\* failed destroy and returned -1 at the end
RECURSIVE release_rx_all_from(_, _, _, _, _)
release_rx_all_from(m, a, i, okset, rc) ==
    IF m.crashed THEN m
    ELSE IF ~(i < m.privs[a].nr_vring) THEN [m EXCEPT !.rc = rc]
    ELSE IF i = 0 \/ i % 2 = 0
    THEN LET m0 == IF i < VirtqSlots THEN m
                   ELSE Undefined([m EXCEPT !.oob = @ \cup {i}])
             m1 == IF m0.crashed THEN m0
                   ELSE dv_devx_obj_destroy(m0, virtq_rq_obj(m0, a, i),
                                            i \in okset)
         IN  IF m1.crashed THEN m1
             ELSE IF m1.rc # 0
             THEN release_rx_all_from(m1, a, i + 1, okset, -1)
             ELSE release_rx_all_from(virtq_store_rqn(m1, a, i, 0), a, i + 1,
                                      okset, rc)
    ELSE release_rx_all_from(m, a, i + 1, okset, rc)
mlx5_vdpa_release_rx_goes_on(m, a, okset) ==
    release_rx_all_from(m, a, 0, okset, 0)

mlx5_vdpa_release_rx(m, a, okset) == release_rx_from(m, a, 0, okset)

\* the stop as it would be without the reset of relay.epfd
unset_notify_relay_keeps_epfd(m, a) ==
    LET r == m.privs[a].relay
        m1 == [m EXCEPT !.privs[a].relay.tid = 0]
        m2 == IF r.epfd >= 0
              THEN [Logged(m1, "close", r.epfd, "") EXCEPT
                       !.openFds = @ \ {r.epfd}]
              ELSE m1
        m4 == [Logged(m2, "munmap", r.notify_base, "") EXCEPT
                  !.mapped = @ \ {r.notify_base}]
    IN  [m4 EXCEPT !.privs[a].relay.notify_base = NULL, !.rc = 0]

\* mlx5_vdpa_unset_notify_relay after pthread_join has returned
unset_notify_relay_joined(m, a) ==
    LET r == m.privs[a].relay
        m1 == [m EXCEPT !.privs[a].relay.tid = 0]
        m2 == IF r.epfd >= 0
              THEN [Logged(m1, "close", r.epfd, "") EXCEPT
                       !.openFds = @ \ {r.epfd}]
              ELSE m1
        m3 == [m2 EXCEPT !.privs[a].relay.epfd = -1]
        m4 == [Logged(m3, "munmap", r.notify_base, "") EXCEPT
                  !.mapped = @ \ {r.notify_base}]
    IN  [m4 EXCEPT !.privs[a].relay.notify_base = NULL, !.rc = 0]

\* What the environment decides during one dev_close of the priv at a:
\* whether the PD is destroyed, the vring indices whose RQ is destroyed, and
\* what undefined behaviour does.
CloseOutcomes(a) ==
    {o \in [pd : BOOLEAN, rq : SUBSET {i \in 0..MaxVring : i % 2 = 0},
            ub : {"go", "crash"}] :
        /\ o.rq \subseteq 0..(privs[a].nr_vring - 1)
        /\ (~o.pd => o.rq = {})}

\* mlx5_vdpa_dev_close from the return of pthread_join (or from the test of
\* relay.tid when it is 0) to its return
dev_close_rest(m, a, o) ==
    LET m1 == unset_notify_relay_joined(m, a)
        m2 == dv_devx_obj_destroy(m1, m1.privs[a].pd_obj, o.pd)
    IN  IF m2.crashed THEN m2
        ELSE IF m2.rc # 0 THEN [m2 EXCEPT !.rc = -1]
        ELSE
          LET m3 == mlx5_vdpa_release_rx([m2 EXCEPT !.privs[a].pdn = 0], a, o.rq)
          IN  IF m3.crashed THEN m3
              ELSE IF m3.rc # 0 THEN [m3 EXCEPT !.rc = -1]
              ELSE [m3 EXCEPT !.privs[a].dev_attached = 0, !.rc = 0]

\* dev_close up to pthread_join: the lookup and, when relay.tid names a
\* thread, pthread_cancel; the call then waits for that thread to exit.
\* pthread_cancel and pthread_join of a value that names no thread are
\* undefined: they crash or fail without effect.
mlx5_vdpa_dev_close(vid) ==
    /\ ~crashed
    /\ probed = bus
    /\ pend = <<>>
    /\ LET did == rte_vhost_get_vdpa_device_id(vid)
           list_elem == find_priv_resource_by_did(did)
       IN  IF list_elem = NULL
           THEN /\ Commit([Machine("go") EXCEPT !.rc = -1], "dev_close", vid)
                /\ pend' = pend
           ELSE
             LET a == priv_list[list_elem]
                 tid == privs[a].relay.tid
             IN  IF tid \in DOMAIN thr
                 THEN /\ thr' = [thr EXCEPT ![tid].cancel = TRUE]
                      /\ log' = <<[op |-> "pthread_cancel", arg |-> tid,
                                   res |-> ""]>>
                      /\ pend' = <<[vid |-> vid, priv |-> a, tid |-> tid]>>
                      /\ UNCHANGED <<privs, live, nextId, mapped, openFds,
                                     oob, crashed, ret>>
                 ELSE
                   /\ \E o \in CloseOutcomes(a) :
                        LET m0 == Machine(o.ub)
                            m1 == IF tid = 0 THEN m0
                                  ELSE Undefined(Logged(m0, "pthread_cancel",
                                                        tid, "undefined"))
                            m2 == IF m1.crashed THEN m1
                                  ELSE dev_close_rest(m1, a, o)
                        IN  /\ (o.ub = "crash" => m2.crashed)
                            /\ Commit(m2, "dev_close", vid)
                   /\ pend' = pend
    /\ UNCHANGED <<priv_list, bus, grant, probed, vdpa_ids, sess, kick>>

\* pthread_join returns once the cancelled thread has exited; the rest of
\* dev_close runs
dev_close_joined ==
    /\ ~crashed
    /\ pend # <<>>
    /\ LET c == pend[1]
       IN  /\ thr[c.tid].pc = "exit"
           /\ \E o \in CloseOutcomes(c.priv) :
                LET m0 == [Machine(o.ub) EXCEPT
                              !.log = log,
                              !.thr = [t \in DOMAIN thr \ {c.tid} |-> thr[t]]]
                    m1 == Logged(m0, "pthread_join", c.tid, "")
                    m2 == dev_close_rest(m1, c.priv, o)
                IN  /\ (o.ub = "crash" => m2.crashed)
                    /\ Commit(m2, "dev_close", c.vid)
    /\ pend' = <<>>
    /\ UNCHANGED <<priv_list, bus, grant, probed, vdpa_ids, sess, kick>>

(* ----------------------------- notify relay ---------------------------- *)
\* ev.data.u64 = qid | (uint64_t)vring.kickfd << 32, a 64-bit word held as
\* its two 32-bit halves
EventData(qid, kickfd) == [lo |-> qid, hi |-> kickfd]
\* the tag read on the wrong half of the union
EventQidHighHalf(u64) == u64.hi
\* events[i].data.u32: the low half of the union on a little-endian host
EventQid(u64) == u64.lo
\* (uint32_t)(events[i].data.u64 >> 32)
EventKickFd(u64) == u64.hi

\* the thread has returned from mlx5_vdpa_notify_relay or was cancelled
Exited(t) ==
    [t EXCEPT !.pc = "exit", !.epfd = -1, !.q_num = 0, !.regs = {},
              !.events = <<>>, !.i = 0, !.buf = 0, !.wrote = <<>>, !.err = ""]

\* The model follows the counter of a kick descriptor while a relay thread
\* has it registered: the counters once the threads are th
Followed(th) ==
    [fd \in DOMAIN kick |->
        IF \E tid \in DOMAIN th : \E u \in th[tid].regs : u.hi = fd
        THEN kick[fd] ELSE 0]

\* Lines 283-298: the vring count, the epoll instance and the registration
\* of the kick descriptors. created: whether epoll_create succeeds; added:
\* how many epoll_ctl calls succeed before one fails (q_num: none fails).
relay_start(tid) ==
    /\ ~crashed
    /\ thr[tid].pc = "start"
    /\ LET t == thr[tid]
           a == t.priv
           q_num == rte_vhost_get_vring_num(privs[a].id)
       IN  \E created \in BOOLEAN, added \in 0..q_num :
             IF ~created
             THEN /\ thr' = [thr EXCEPT ![tid] = Exited(t)]
                  /\ UNCHANGED <<privs, openFds>>
             ELSE
               LET epfd == EpollFd(tid - ThreadId(0))
                   regs == {EventData(qid, KickFd(privs[a].id, qid)) :
                                qid \in 0..(added - 1)}
               IN  /\ privs' = [privs EXCEPT ![a].relay.epfd = epfd]
                   /\ openFds' = openFds \cup {epfd}
                   /\ thr' = [thr EXCEPT ![tid] =
                         IF added < q_num THEN Exited(t)
                         ELSE [t EXCEPT !.pc = "wait", !.epfd = epfd,
                                        !.q_num = q_num, !.regs = regs]]
    /\ UNCHANGED <<priv_list, bus, grant, probed, vdpa_ids, sess, live, nextId,
                   mapped, kick, oob, crashed, ret, log, pend>>

\* the orderings of a finite set as sequences
Orderings(S) ==
    {f \in [1..Cardinality(S) -> S] :
        \A i, j \in 1..Cardinality(S) : i # j => f[i] # f[j]}

\* the registered events whose kick descriptor is readable
Ready(t) == {u \in t.regs : kick[EventKickFd(u)] > 0}

\* the test of l.302 as it would be if no errno of epoll_wait were retried
WaitRetriedNever(errno) == FALSE
\* Line 302: the errno after which epoll_wait is called again
WaitRetried(errno) == errno = "EINTR"
\* Lines 313-315: the errnos after which read is called again
ReadRetried(errno) == errno \in {"EINTR", "EWOULDBLOCK", "EAGAIN"}

\* Line 300: epoll_wait(epfd, events, q_num, -1) returns. It fails with
\* EINVAL when q_num is 0 and with EBADF when epfd is closed; interrupted,
\* it fails with EINTR; the thread calls it again or returns (l.301-306).
\* Else it blocks until descriptors are readable and stores their events.
\* More than VirtqSlots events do not fit the events array. err: the errno
\* of the last epoll_wait or read that failed, "" after one that did not.
relay_wait(tid) ==
    /\ ~crashed
    /\ thr[tid].pc = "wait"
    /\ ~thr[tid].cancel
    /\ LET t == thr[tid]
           errno == IF t.q_num = 0 THEN "EINVAL"
                    ELSE IF t.epfd \notin openFds THEN "EBADF"
                    ELSE "EINTR"
       IN  \/ /\ thr' = [thr EXCEPT ![tid] =
                     IF WaitRetried(errno) THEN [t EXCEPT !.err = errno]
                     ELSE [Exited(t) EXCEPT !.err = errno]]
              /\ kick' = Followed(thr')
              /\ UNCHANGED <<oob, crashed>>
           \/ /\ errno = "EINTR"
              /\ Ready(t) # {}
              /\ \E ev \in Orderings(Ready(t)), ub \in {"go", "crash"} :
                   LET nfds == Len(ev)
                       over == nfds > VirtqSlots
                   IN  /\ over \/ ub = "go"
                       /\ oob' = IF over THEN oob \cup {nfds - 1} ELSE oob
                       /\ crashed' = (over /\ ub = "crash")
                       /\ thr' = [thr EXCEPT ![tid] =
                             [t EXCEPT !.pc = "drain", !.events = ev,
                                       !.i = 0, !.err = ""]]
                       /\ kick' = kick
    /\ UNCHANGED <<priv_list, privs, bus, grant, probed, vdpa_ids, sess, live,
                   nextId, mapped, openFds, ret, log, pend>>

\* Lines 308-322: read(kickfd, &buf, 8) for events[i]. A readable counter is
\* read and reset, unless the read is interrupted (EINTR); an empty one
\* fails with EAGAIN. After an errno of l.313-315 the read is repeated;
\* after another one the loop is left for the doorbell write.
relay_drain(tid) ==
    /\ ~crashed
    /\ thr[tid].pc = "drain"
    /\ ~thr[tid].cancel
    /\ LET t == thr[tid]
           kickfd == EventKickFd(t.events[t.i + 1])
       IN  \E errno \in IF kick[kickfd] > 0 THEN {"", "EINTR"} ELSE {"EAGAIN"} :
             IF errno = ""
             THEN /\ kick' = [kick EXCEPT ![kickfd] = 0]
                  /\ thr' = [thr EXCEPT ![tid].pc = "notify",
                                        ![tid].buf = kick[kickfd],
                                        ![tid].err = ""]
             ELSE /\ kick' = kick
                  /\ thr' = [thr EXCEPT ![tid] =
                        IF ReadRetried(errno) THEN [t EXCEPT !.err = errno]
                        ELSE [t EXCEPT !.err = errno, !.pc = "notify"]]
    /\ UNCHANGED <<priv_list, privs, bus, grant, probed, vdpa_ids, sess, live,
                   nextId, mapped, openFds, oob, crashed, ret, log, pend>>

\* Line 323: rte_write32(qid, priv->relay.notify_base). A store to an
\* address that is not mapped terminates the process. wrote: the doorbell
\* writes of this wake iteration.
relay_notify(tid) ==
    /\ ~crashed
    /\ thr[tid].pc = "notify"
    /\ LET t == thr[tid]
           qid == EventQid(t.events[t.i + 1])
           base == privs[t.priv].relay.notify_base
       IN  IF base \notin mapped
           THEN /\ crashed' = TRUE
                /\ thr' = thr
           ELSE /\ crashed' = crashed
                /\ thr' = [thr EXCEPT ![tid] =
                      [t EXCEPT !.wrote = Append(@, [addr |-> base, val |-> qid]),
                                !.pc = "loop"]]
    /\ UNCHANGED <<priv_list, privs, bus, grant, probed, vdpa_ids, sess, live, nextId,
                   mapped, openFds, kick, oob, ret, log, pend>>

\* Line 307, i++ and i < nfds: on to the next event, or back to epoll_wait
\* when the events of this wake iteration are done
relay_loop(tid) ==
    /\ ~crashed
    /\ thr[tid].pc = "loop"
    /\ LET t == thr[tid]
       IN  thr' = [thr EXCEPT ![tid] =
               IF t.i + 1 < Len(t.events)
               THEN [t EXCEPT !.i = @ + 1, !.pc = "drain"]
               ELSE [t EXCEPT !.events = <<>>, !.i = 0, !.buf = 0,
                              !.wrote = <<>>, !.pc = "wait"]]
    /\ UNCHANGED <<priv_list, privs, bus, grant, probed, vdpa_ids, sess, live, nextId,
                   mapped, openFds, kick, oob, crashed, ret, log, pend>>

\* a cancelled thread exits at its next cancellation point: epoll_wait or
\* read
relay_cancelled(tid) ==
    /\ ~crashed
    /\ thr[tid].cancel
    /\ thr[tid].pc \in {"wait", "drain"}
    /\ thr' = [thr EXCEPT ![tid] = Exited(thr[tid])]
    /\ kick' = Followed(thr')
    /\ UNCHANGED <<priv_list, privs, bus, grant, probed, vdpa_ids, sess, live, nextId,
                   mapped, openFds, oob, crashed, ret, log, pend>>

RECURSIVE SumOver(_, _)
SumOver(f, S) ==
    IF S = {} THEN 0
    ELSE LET x == CHOOSE y \in S : TRUE IN f[x] + SumOver(f, S \ {x})
KicksPending == SumOver(kick, DOMAIN kick)

\* the guest driver signals the kick eventfd of vring q of session vid; the
\* model follows the counters of descriptors a running relay has registered
guest_kick(vid, q) ==
    /\ ~crashed
    /\ q < rte_vhost_get_vring_num(vid)
    /\ \E tid \in DOMAIN thr :
         EventData(q, KickFd(vid, q)) \in thr[tid].regs
    /\ KicksPending < MaxKick
    /\ kick' = [kick EXCEPT ![KickFd(vid, q)] = @ + 1]
    /\ UNCHANGED <<priv_list, privs, bus, grant, probed, vdpa_ids, sess, live, nextId,
                   mapped, openFds, thr, oob, crashed, ret, log, pend>>

(* ---------------------------- specification ---------------------------- *)
\* the guest sessions that may exist and the PCI devices that may be
\* present
Sessions == [Vids -> [did : Dids, nr : 0..MaxVring]]
Buses == {{1}, {1, 2}}

\* the state after construction, before the bus is probed, in an
\* environment that grants g
Boot(g) ==
    /\ priv_list = <<>>
    /\ privs = <<>>
    /\ bus \in Buses
    /\ grant = g
    /\ probed = {}
    /\ vdpa_ids = {}
    /\ sess \in Sessions
    /\ live = {}
    /\ nextId = [obj |-> 1, page |-> 1, thread |-> 1]
    /\ mapped = {}
    /\ openFds = {0}
    /\ thr = <<>>
    /\ kick = [fd \in {KickFd(v, q) : v \in Vids, q \in 0..(MaxVring - 1)} |-> 0]
    /\ oob = {}
    /\ crashed = FALSE
    /\ ret = [op |-> "none", vid |-> 0, rc |-> 0, hw |-> NoAccel,
              cmd |-> NoCmd, id |-> -1]
    /\ log = <<>>
    /\ pend = <<>>

Init == Boot([obj |-> MaxObj, relay |-> MaxRelay])

\* The driver with guests that do not kick: probe, the dev_conf / dev_close
\* lifecycle and the relay threads it creates and cancels.
Next ==
    \/ \E pci \in PciDevs : mlx5_vdpa_pci_probe(pci)
    \/ \E vid \in Vids : mlx5_vdpa_dev_config(vid)
    \/ \E vid \in Vids : mlx5_vdpa_dev_close(vid)
    \/ dev_close_joined
    \/ \E tid \in DOMAIN thr : relay_start(tid)
    \/ \E tid \in DOMAIN thr : relay_wait(tid)
    \/ \E tid \in DOMAIN thr : relay_cancelled(tid)

Spec == Init /\ [][Next]_vars

\* The driver with a guest that kicks: one device whose vdpa id is the vid
\* of the session bound to it, the session's vrings within the capacity of
\* the priv.
InitRelay ==
    /\ Init
    /\ bus = {1}
    /\ \A vid \in Vids : sess[vid].did = vid /\ sess[vid].nr \in 1..VirtqSlots

NextRelay ==
    \/ Next
    \/ \E vid \in Vids, q \in 0..(MaxVring - 1) : guest_kick(vid, q)
    \/ \E tid \in DOMAIN thr : relay_drain(tid)
    \/ \E tid \in DOMAIN thr : relay_notify(tid)
    \/ \E tid \in DOMAIN thr : relay_loop(tid)

SpecRelay == InitRelay /\ [][NextRelay]_vars

\* The driver with a guest that kicks and a vhost library that may call
\* dev_conf again before dev_close: one device, one session of one vring,
\* and an environment that grants a second PD, page and thread.
InitTwoRelays ==
    /\ Boot([obj |-> MaxRelay + 1, relay |-> MaxRelay + 1])
    /\ bus = {1}
    /\ \A vid \in Vids : sess[vid].did = vid /\ sess[vid].nr = 1

SpecTwoRelays == InitTwoRelays /\ [][NextRelay]_vars

\* the ids of the threads pthread_create can hand out
Tids == {ThreadId(n) : n \in 1..(MaxRelay + 1)}

\* a step of relay thread tid
RelayRuns(tid) ==
    /\ tid \in DOMAIN thr
    /\ \/ relay_start(tid)
       \/ relay_wait(tid)
       \/ relay_drain(tid)
       \/ relay_notify(tid)
       \/ relay_loop(tid)
       \/ relay_cancelled(tid)

\* The same with the scheduler's guarantee for the relay threads: a thread
\* that can take a step is not left out for ever. Nothing obliges the guest
\* to kick or the vhost library to call dev_conf or dev_close.
SpecTwoRelaysFair ==
    SpecTwoRelays /\ \A tid \in Tids : WF_vars(RelayRuns(tid))

(* ----------------------------- properties ------------------------------ *)
\* the priv dev_conf and dev_close of session vid work on, NULL when the
\* registry has none for the session's device id
PrivOf(vid) ==
    LET list_elem == find_priv_resource_by_did(rte_vhost_get_vdpa_device_id(vid))
    IN  IF list_elem = NULL THEN NULL ELSE priv_list[list_elem]

\* the last call issued op with result res / on arg with result res
Called(op, res) ==
    \E k \in 1..Len(log) : log[k].op = op /\ log[k].res = res
CalledOn(op, arg, res) ==
    \E k \in 1..Len(log) : log[k] = [op |-> op, arg |-> arg, res |-> res]
HowOften(op, res) ==
    Cardinality({k \in 1..Len(log) : log[k].op = op /\ log[k].res = res})
\* every destroy the last call issued was of a live object and succeeded
DestroysAllOk ==
    \A k \in 1..Len(log) : log[k].op = "destroy" => log[k].res = "ok"

\* a virtq slot that holds neither a queue number nor a handle
SlotEmpty(slot) == slot.rqn = 0 /\ slot.rq_obj = NULL
\* a virtq slot that holds a live RQ object and its number
SlotPopulated(slot) == slot.rqn # 0 /\ slot.rq_obj \in live
IsEven(i) == i % 2 = 0

\* C1: end-to-end lifecycle. For a registered device and a session of 2
\* vrings, a dev_conf in which the PD, the RQ of vring 0, the doorbell
\* mapping and the relay thread are all created returns 0 and leaves
\* dev_attached set, slot 0 populated and the relay thread created; a
\* following dev_close in which every destroy succeeds returns 0 and leaves
\* dev_attached clear, every virtq slot empty, the relay thread gone and
\* the doorbell page unmapped.
C1_Lifecycle ==
    \A vid \in Vids :
      LET a == PrivOf(vid)
      IN  (a # NULL /\ ret.vid = vid /\ rte_vhost_get_vring_num(vid) = 2) =>
            /\ (/\ ret.op = "dev_conf"
                /\ Called("create_pd", "ok") /\ CalledOn("create_rq", 0, "ok")
                /\ Called("mmap", "ok") /\ Called("pthread_create", "ok"))
               => /\ ret.rc = 0
                  /\ privs[a].dev_attached = 1
                  /\ SlotPopulated(privs[a].virtq[0])
                  /\ privs[a].relay.tid \in DOMAIN thr
            /\ (/\ ret.op = "dev_close"
                /\ Called("pthread_join", "")
                /\ nextId.obj = 3
                /\ HowOften("destroy", "ok") = 2 /\ DestroysAllOk)
               => /\ ret.rc = 0
                  /\ privs[a].dev_attached = 0
                  /\ \A i \in DOMAIN privs[a].virtq :
                        SlotEmpty(privs[a].virtq[i])
                  /\ thr = <<>>
                  /\ mapped = {}

\* the ids the registry is asked for: those of vdpa devices and -1, the id
\* of no device
QueryIds == Dids \cup {-1}
\* the ids this driver's contexts were registered under
RegisteredIds == {privs[a].id : a \in DOMAIN privs}

C2_Found ==
    /\ \A a \in DOMAIN privs :
         LET list_elem == find_priv_resource_by_did(privs[a].id)
         IN  list_elem # NULL /\ priv_list[list_elem] = a
    /\ (ret.op = "probe" /\ ret.rc = 0) =>
         /\ find_priv_resource_by_did(ret.id) # NULL
         /\ priv_list[find_priv_resource_by_did(ret.id)] = ret.vid
         /\ privs[ret.vid].ctx = ret.vid

C2_Unknown ==
    /\ \A d \in QueryIds \ RegisteredIds :
         /\ find_priv_resource_by_did(d) = NULL
         /\ mlx5_vdpa_get_queue_num(d).rc = -1
         /\ mlx5_vdpa_get_vdpa_features(d).rc = -1
         /\ mlx5_vdpa_get_protocol_features(d).rc = -1
    /\ \A vid \in Vids :
         (/\ ret.op \in {"dev_conf", "dev_close"} /\ ret.vid = vid
          /\ rte_vhost_get_vdpa_device_id(vid) \notin RegisteredIds)
         => ret.rc = -1

C2_Kept ==
    \A d \in QueryIds :
      find_priv_resource_by_did(d) # NULL =>
        /\ find_priv_resource_by_did(d)' # NULL
        /\ priv_list'[find_priv_resource_by_did(d)'] =
              priv_list[find_priv_resource_by_did(d)]

\* C2: registry lookup. At every point of every run of probes, dev_conf and
\* dev_close calls, the lookup of an id a context was registered under
\* finds that context, and keeps finding it (no entry is removed or
\* replaced); the lookup of any other id finds none, and get_queue_num,
\* get_vdpa_features, get_protocol_features, dev_conf and dev_close on
\* such an id return -1.
C2_RegistryLookup == [](C2_Found /\ C2_Unknown) /\ [][C2_Kept]_vars

\* a dev_conf and a dev_close that destroyed what it created have returned
\* 0 on the device registered second, which the lookup still finds, and -1
\* is the id of no device
C2_Witness ==
    /\ Len(priv_list) = 2
    /\ ret.op = "dev_close" /\ ret.rc = 0
    /\ Called("destroy", "ok") /\ DestroysAllOk
    /\ find_priv_resource_by_did(rte_vhost_get_vdpa_device_id(ret.vid)) = 2
    /\ find_priv_resource_by_did(-1) = NULL

\* every object created so far was created by the last call: the call is
\* the first to provision anything, the slots were all empty before it
FirstProvision ==
    nextId.obj - 1 = HowOften("create_pd", "ok") + HowOften("create_rq", "ok")

\* C3: provision postcondition with partial failure. For any vring count
\* N, once the PD is created, the provisioning dev_conf returns 0 whatever
\* RQ creations fail; creation is attempted at every even index below N;
\* afterwards virtq slot i is populated for exactly the even i < N whose
\* creation succeeded and empty for every other i, and one failure is
\* logged per failed creation.
C3_Provision ==
    \A vid \in Vids :
      LET a == PrivOf(vid)
          N == rte_vhost_get_vring_num(vid)
          Created(i) == IsEven(i) /\ i < N /\ CalledOn("create_rq", i, "ok")
      IN  (/\ a # NULL /\ ret.op = "dev_conf" /\ ret.vid = vid
           /\ Called("create_pd", "ok") /\ FirstProvision)
          => /\ ret.rc = 0
             /\ \A i \in 0..(N - 1) :
                   IsEven(i) => (\/ CalledOn("create_rq", i, "ok")
                                \/ CalledOn("create_rq", i, "fail"))
             /\ \A i \in 0..(N - 1) :
                   Created(i) => /\ i \in DOMAIN privs[a].virtq
                                 /\ SlotPopulated(privs[a].virtq[i])
             /\ \A i \in DOMAIN privs[a].virtq :
                   ~Created(i) => SlotEmpty(privs[a].virtq[i])
             /\ HowOften("log_err_create_rq", "") = HowOften("create_rq", "fail")

\* C4: release postcondition. A dev_close that returns 0 and in which
\* every destroy is of a live object and succeeds leaves every virtq slot
\* empty: no slot holds a queue number or an RQ handle.
C4_Release ==
    \A vid \in Vids :
      LET a == PrivOf(vid)
      IN  (/\ a # NULL /\ ret.op = "dev_close" /\ ret.vid = vid
           /\ ret.rc = 0 /\ DestroysAllOk)
          => \A i \in DOMAIN privs[a].virtq : SlotEmpty(privs[a].virtq[i])

\* C5: relay start failure aborts configuration. A dev_conf in which mmap
\* or pthread_create fails returns -1 and leaves dev_attached clear; the PD
\* it created stays live.
C5_RelayStartFailure ==
    \A vid \in Vids :
      LET a == PrivOf(vid)
      IN  (/\ a # NULL /\ ret.op = "dev_conf" /\ ret.vid = vid
           /\ (Called("mmap", "fail") \/ Called("pthread_create", "fail")))
          => /\ ret.rc = -1
             /\ privs[a].dev_attached = 0
             /\ privs[a].pd_obj \in live

\* C6: best-effort teardown. A dev_close in which the destroy of the PD
\* fails returns -1, still attempts the destroy of every live RQ a virtq
\* slot holds and still clears dev_attached.
C6_BestEffortTeardown ==
    \A vid \in Vids :
      LET a == PrivOf(vid)
      IN  (/\ a # NULL /\ ret.op = "dev_close" /\ ret.vid = vid
           /\ CalledOn("destroy", privs[a].pd_obj, "fail"))
          => /\ ret.rc = -1
             /\ \A i \in DOMAIN privs[a].virtq :
                   privs[a].virtq[i].rq_obj \in live =>
                     \E k \in 1..Len(log) :
                        /\ log[k].op = "destroy"
                        /\ log[k].arg = privs[a].virtq[i].rq_obj
             /\ privs[a].dev_attached = 0

\* the step is the return of the dev_conf or dev_close call op of session
\* vid
Returns(op, vid) ==
    /\ ret'.op = op /\ ret'.vid = vid
    /\ pend' = <<>>
    /\ (ret' # ret \/ log' # log)

C7_Step ==
    \A vid \in Vids :
      LET a == PrivOf(vid)
      IN  a # NULL =>
            /\ (Returns("dev_close", vid) /\ ret'.rc = -1)
               => privs'[a].dev_attached = 0
            /\ (/\ Returns("dev_conf", vid) /\ ret'.rc = -1
                /\ privs[a].dev_attached = 0)
               => privs'[a].dev_attached = 0
            /\ (privs[a].dev_attached = 0 /\ privs'[a].dev_attached = 1)
               => (Returns("dev_conf", vid) /\ ret'.rc = 0)

\* C7: lifecycle failure transitions. A dev_close that returns -1 leaves
\* dev_attached clear, as does a dev_conf that returns -1 on a device that
\* was not attached; dev_attached becomes set only at the return of a
\* dev_conf that returns 0.
C7_FailureTransitions == [][C7_Step]_vars

\* the three fields of priv->relay as mlx5_vdpa_unset_notify_relay leaves
\* them
RelayUnset(relay) ==
    relay.tid = 0 /\ relay.epfd = -1 /\ relay.notify_base = NULL

\* C8: relay stop is idempotent. Wherever the stop runs (the relay thread,
\* if any, cancelled and joined), it leaves the epoll descriptor closed,
\* the doorbell page unmapped and the three relay fields unset; a second
\* stop then finds relay.tid 0 (nothing to cancel or join), returns 0,
\* closes no descriptor and changes nothing. A dev_close that joined the
\* relay thread leaves no such thread.
C8_StopIdempotent ==
    /\ \A a \in DOMAIN privs :
         LET relay == privs[a].relay
             m1 == unset_notify_relay_joined(Machine("go"), a)
             m2 == unset_notify_relay_joined([m1 EXCEPT !.log = <<>>], a)
         IN  (relay.tid \notin DOMAIN thr \/ thr[relay.tid].pc = "exit") =>
               /\ m1.rc = 0
               /\ RelayUnset(m1.privs[a].relay)
               /\ relay.epfd >= 0 => relay.epfd \notin m1.openFds
               /\ relay.notify_base \notin m1.mapped
               /\ m2.rc = 0
               /\ [m2 EXCEPT !.log = <<>>] = [m1 EXCEPT !.log = <<>>]
               /\ \A k \in 1..Len(m2.log) :
                     m2.log[k].op \notin {"pthread_cancel", "pthread_join", "close"}
    /\ \A k \in 1..Len(log) :
         (ret.op = "dev_close" /\ log[k].op = "pthread_join")
         => log[k].arg \notin DOMAIN thr

\* a dev_close has returned that cancelled and joined the relay thread,
\* closed its epoll descriptor and unmapped the doorbell page
C8_Witness ==
    \E vid \in Vids :
      /\ PrivOf(vid) # NULL
      /\ ret.op = "dev_close" /\ ret.vid = vid
      /\ Called("pthread_join", "")
      /\ \E k \in 1..Len(log) : log[k].op = "close" /\ log[k].arg = EpollFd(1)
      /\ \E k \in 1..Len(log) : log[k].op = "munmap" /\ log[k].arg = PageAddr(1)
      /\ RelayUnset(privs[PrivOf(vid)].relay)
      /\ thr = <<>> /\ mapped = {}

\* the vring of the session the relay of priv a serves whose kick
\* descriptor is fd
QueueOf(a, fd) ==
    CHOOSE q \in 0..(MaxVring - 1) : KickFd(privs[a].id, q) = fd

\* C9: relay coalescing. In a wake iteration the relay thread writes the
\* doorbell once for each ready kick descriptor it has read, however many
\* kicks the descriptor had counted, and the value written is the index of
\* that descriptor's vring; no vring is served twice in one iteration.
C9_Coalescing ==
    \A tid \in DOMAIN thr :
      LET t == thr[tid]
      IN  /\ t.pc \in {"drain", "notify"} => Len(t.wrote) = t.i
          /\ t.pc = "loop" => (Len(t.wrote) = t.i + 1 /\ t.buf >= 1)
          /\ t.pc \in {"start", "wait", "exit"} => t.wrote = <<>>
          /\ \A k \in 1..Len(t.wrote) :
                t.wrote[k].val = QueueOf(t.priv, EventKickFd(t.events[k]))
          /\ \A j, k \in 1..Len(t.events) :
                j # k => EventKickFd(t.events[j]) # EventKickFd(t.events[k])

\* two kicks were counted on vring 1 before the relay thread read the
\* descriptor, and the iteration wrote the doorbell once, with value 1
C9_Witness ==
    \E tid \in DOMAIN thr :
      /\ thr[tid].pc = "loop"
      /\ thr[tid].buf = 2
      /\ Len(thr[tid].events) = 1
      /\ thr[tid].wrote =
            <<[addr |-> privs[thr[tid].priv].relay.notify_base, val |-> 1]>>

\* C10: negotiated queue count. After the probe of an accelerator whose
\* general_obj_types has the VIRTQ bit, get_queue_num gives the
\* max_num_of_virtqs of the emulation capability query; after the probe of
\* one without the bit it gives the software limit 1.
C10_QueueCount ==
    (ret.op = "probe" /\ ret.rc = 0) =>
      /\ mlx5_vdpa_get_queue_num(ret.id).rc = 0
      /\ mlx5_vdpa_get_queue_num(ret.id).out =
            IF ret.hw.virtq THEN ret.hw.max_num_of_virtqs
            ELSE MLX5_VDPA_SW_MAX_VIRTQS_SUPPORTED

\* whether the negotiation the last probe ran got every answer it needs:
\* the general query, the fill-key flag, the fill-key value and, when the
\* accelerator has the VIRTQ object type, the emulation query
ProbeNegotiated ==
    /\ ret.cmd.general
    /\ ret.hw.dump_fill_mkey
    /\ ret.cmd.special
    /\ (ret.hw.virtq => ret.cmd.emulation)

C11_Unpublished ==
    (ret.op = "probe" /\ ~ProbeNegotiated) =>
      /\ ret.rc # 0
      /\ ret.vid \notin DOMAIN privs
      /\ \A k \in 1..Len(priv_list) : priv_list[k] # ret.vid

C11_EntriesNegotiated ==
    \A k \in 1..Len(priv_list) :
      LET caps == privs[priv_list[k]].caps
      IN  /\ caps.dump_mkey \in FillKeys
          /\ caps.max_num_virtqs = MLX5_VDPA_SW_MAX_VIRTQS_SUPPORTED
          /\ caps.virtio_net_features = MLX5_VDPA_FEATURES
          /\ caps.virtio_protocol_features = MLX5_VDPA_PROTOCOL_FEATURES

C11_Added ==
    (priv_list' # priv_list) =>
      /\ ret'.op = "probe"
      /\ ret'.rc = 0
      /\ ProbeNegotiated'
      /\ priv_list' = Append(priv_list, ret'.vid)
      /\ privs'[ret'.vid].caps.dump_mkey = ret'.hw.dump_mkey

\* C11: a context enters the registry only by a probe whose negotiation
\* succeeded: a probe whose general query fails, whose accelerator lacks the
\* fill-key flag, whose fill-key query fails or whose emulation query fails
\* adds no entry, and every entry carries a negotiated capability set.
C11_OnlyNegotiated ==
    [](C11_Unpublished /\ C11_EntriesNegotiated) /\ [][C11_Added]_vars

\* a second probe fails at the emulation query after a first one published
C11_Witness ==
    /\ ret.op = "probe"
    /\ ret.rc # 0
    /\ ret.cmd.general /\ ret.hw.dump_fill_mkey /\ ret.cmd.special
    /\ ret.hw.virtq /\ ~ret.cmd.emulation
    /\ Len(priv_list) = 1
    /\ ret.vid \notin DOMAIN privs

C12_Frame ==
    /\ \A a \in DOMAIN privs :
         a \in DOMAIN privs' /\ privs'[a].caps = privs[a].caps
    /\ \A d \in RegisteredIds :
         /\ mlx5_vdpa_get_queue_num(d)' = mlx5_vdpa_get_queue_num(d)
         /\ mlx5_vdpa_get_vdpa_features(d)' = mlx5_vdpa_get_vdpa_features(d)
         /\ mlx5_vdpa_get_protocol_features(d)' =
               mlx5_vdpa_get_protocol_features(d)

C12_Getters ==
    \A a \in DOMAIN privs :
      /\ mlx5_vdpa_get_queue_num(privs[a].id) =
            [rc |-> 0, out |-> privs[a].caps.max_num_virtqs]
      /\ mlx5_vdpa_get_vdpa_features(privs[a].id) =
            [rc |-> 0, out |-> privs[a].caps.virtio_net_features]
      /\ mlx5_vdpa_get_protocol_features(privs[a].id) =
            [rc |-> 0, out |-> privs[a].caps.virtio_protocol_features]

C12_Renegotiated ==
    (ret.op = "probe" /\ ret.rc = 0) =>
      LET again == mlx5_vdpa_query_virtio_caps(privs[ret.vid], ret.hw, ret.cmd)
      IN  again.rc = 0 /\ again.priv.caps = privs[ret.vid].caps

\* C12: the capability set is fixed once negotiated. No step of a probe of
\* another device, a dev_conf, a dev_close or a relay thread changes the
\* capability set of a registered context, so the three getters return the
\* same values at every point after registration; and negotiating again on
\* a registered context, against the same accelerator answers, yields the
\* values it already holds.
C12_CapsImmutable ==
    [](C12_Getters /\ C12_Renegotiated) /\ [][C12_Frame]_vars

\* a session of three vrings was configured with RQs created and then
\* closed, and the getters still return the negotiated values
C12_Witness ==
    \E vid \in Vids :
      /\ PrivOf(vid) # NULL
      /\ ret.op = "dev_close" /\ ret.vid = vid
      /\ privs[PrivOf(vid)].nr_vring = 3
      /\ nextId.obj > 2
      /\ mlx5_vdpa_get_queue_num(privs[PrivOf(vid)].id).out =
            MLX5_VDPA_SW_MAX_VIRTQS_SUPPORTED
      /\ mlx5_vdpa_get_vdpa_features(privs[PrivOf(vid)].id).out =
            MLX5_VDPA_FEATURES

\* C13: release ordering. The protection domain of a context is destroyed
\* only after the RQ of every populated virtq slot: in no state is an RQ a
\* slot holds live while the PD of its context is destroyed, and no
\* dev_close destroys an RQ after it has destroyed the PD.
C13_ReleaseOrder ==
    \A a \in DOMAIN privs :
      /\ (\E i \in DOMAIN privs[a].virtq : privs[a].virtq[i].rq_obj \in live)
            => privs[a].pd_obj \in live
      /\ (ret.op = "dev_close" /\ PrivOf(ret.vid) = a) =>
            \A j, k \in 1..Len(log) :
              (/\ log[j] = [op |-> "destroy", arg |-> privs[a].pd_obj,
                            res |-> "ok"]
               /\ log[k].op = "destroy" /\ log[k].res = "ok"
               /\ \E i \in DOMAIN privs[a].virtq :
                     log[k].arg = privs[a].virtq[i].rq_obj)
              => k < j

C14_PdFirst ==
    (ret.op = "dev_conf" /\ pend = <<>> /\ PrivOf(ret.vid) # NULL) =>
      /\ Len(log) >= 1
      /\ log[1].op = "create_pd"
      /\ \A k \in 2..Len(log) : log[k].op # "create_pd"
      /\ log[1].res = "fail" => (ret.rc = -1 /\ Len(log) = 1)

C14_PdFailure ==
    \A vid \in Vids :
      LET a == PrivOf(vid)
      IN  (/\ a # NULL
           /\ Returns("dev_conf", vid)
           /\ log'[1].res = "fail")
          => /\ ret'.rc = -1
             /\ privs' = [privs EXCEPT ![a].vid = vid]
             /\ UNCHANGED <<live, nextId, mapped, openFds, thr>>
             /\ (privs[a].dev_attached = 0 => privs'[a].dev_attached = 0)

\* C14: creation ordering. A dev_conf on a registered device creates the PD
\* first and creates exactly one: the first call it issues is the PD
\* creation and no later one is. When that creation fails the dev_conf
\* returns -1 having issued nothing else: no RQ creation, no mmap, no
\* thread; no object, page, descriptor or thread is added, and
\* dev_attached, clear before, is clear after.
C14_CreationOrder == []C14_PdFirst /\ [][C14_PdFailure]_vars

\* a dev_conf of a session with vrings has returned -1 with the failed PD
\* creation its only call, the device not attached and no relay thread
C14_Witness ==
    /\ ret.op = "dev_conf" /\ pend = <<>>
    /\ PrivOf(ret.vid) # NULL
    /\ rte_vhost_get_vring_num(ret.vid) >= 1
    /\ log = <<[op |-> "create_pd", arg |-> NULL, res |-> "fail"]>>
    /\ ret.rc = -1
    /\ privs[PrivOf(ret.vid)].dev_attached = 0
    /\ thr = <<>> /\ mapped = {} /\ live = {}

\* the positions in the next log of the destroy calls of
\* mlx5_vdpa_release_rx: those after the destroy of the PD, in order
ReleaseDestroys ==
    LET destroys == {k \in 1..Len(log') : log'[k].op = "destroy"}
        pd == CHOOSE k \in destroys : \A j \in destroys : k <= j
    IN  IF destroys = {} THEN {} ELSE destroys \ {pd}

C15_Step ==
    \A vid \in Vids :
      LET a == PrivOf(vid)
          n == Cardinality(ReleaseDestroys)
          \* the vring index of the last destroy issued
          i == 2 * (n - 1)
      IN  (a # NULL /\ Returns("dev_close", vid)) =>
            \* increasing index order: the k-th destroy is of the RQ of
            \* vring 2 (k - 1)
            /\ \A k \in ReleaseDestroys :
                 LET idx == 2 * (Cardinality({j \in ReleaseDestroys : j < k}))
                 IN  /\ idx < privs[a].nr_vring
                     /\ idx < VirtqSlots =>
                           log'[k].arg = privs[a].virtq[idx].rq_obj
            /\ \A k \in ReleaseDestroys :
                 log'[k].res = "fail" =>
                   \* the release stops there and dev_close returns -1
                   /\ k = Len(log')
                   /\ ret'.rc = -1
                   /\ \A j \in DOMAIN privs[a].virtq :
                        /\ j >= i =>
                              privs'[a].virtq[j].rqn = privs[a].virtq[j].rqn
                        /\ (j < i /\ IsEven(j)) => privs'[a].virtq[j].rqn = 0

\* C15: release stops at the first failed destroy. mlx5_vdpa_release_rx
\* destroys the RQs in increasing vring index order; when the destroy for
\* vring i fails it is the last call issued (no destroy for any j > i),
\* dev_close returns -1, the rqn of slot i and of every later slot is
\* unchanged and the rqn of the even slots before i is 0.
C15_StopsAtFirstFailure == [][C15_Step]_vars

\* a dev_close of a session of three vrings has returned -1 at the failed
\* destroy of the RQ of vring 0, with no destroy issued for vring 2 and the
\* slot's rqn kept
C15_Witness ==
    \E vid \in Vids :
      /\ PrivOf(vid) # NULL
      /\ ret.op = "dev_close" /\ ret.vid = vid /\ ret.rc = -1 /\ pend = <<>>
      /\ privs[PrivOf(vid)].nr_vring = 3
      /\ Len(log) >= 2
      /\ log[Len(log)] = [op |-> "destroy",
                          arg |-> privs[PrivOf(vid)].virtq[0].rq_obj,
                          res |-> "fail"]
      /\ log[Len(log) - 1].op = "destroy" /\ log[Len(log) - 1].res = "ok"
      /\ privs[PrivOf(vid)].virtq[0].rqn # 0

\* the relay thread is between the registration of its descriptors and its
\* exit: it waits on its epoll descriptor or is about to write the doorbell
Working(t) == t.pc \in {"wait", "drain", "notify", "loop"}

\* C16: no doorbell use after unmap. In every interleaving of relay threads,
\* kicks, dev_conf and dev_close, a relay thread that is waiting or relaying
\* finds the doorbell page of its context mapped and its epoll descriptor
\* open, no doorbell write terminates the process, and a dev_close that
\* cancelled a thread closes the descriptor and unmaps the page only after
\* it has joined the thread.
C16_NoUseAfterUnmap ==
    /\ \A tid \in DOMAIN thr :
         Working(thr[tid]) =>
           /\ privs[thr[tid].priv].relay.notify_base \in mapped
           /\ thr[tid].epfd \in openFds
    /\ (ret.op = "dev_close" /\ pend = <<>> /\ Called("pthread_cancel", "")) =>
         \A k \in 1..Len(log) :
           log[k].op \in {"close", "munmap"} =>
             \E j \in 1..(k - 1) : log[j].op = "pthread_join"

\* the three fields of priv->relay all populated: a thread id, an epoll
\* descriptor and a doorbell page
RelayPopulated(relay) ==
    relay.tid # 0 /\ relay.epfd > 0 /\ relay.notify_base # NULL
\* the three fields all empty; the epoll descriptor of a context no stop
\* has run on yet is the 0 of rte_zmalloc
RelayEmpty(relay) ==
    relay.tid = 0 /\ relay.epfd \in {-1, 0} /\ relay.notify_base = NULL

\* C17: relay state is all-or-nothing. Whenever a dev_conf or a dev_close
\* on a registered device has returned (also one in which mmap or
\* pthread_create failed), and until the next call, the three relay fields
\* of the context are all populated or all empty.
C17_RelayAllOrNothing ==
    \A vid \in Vids :
      (/\ PrivOf(vid) # NULL
       /\ ret.op \in {"dev_conf", "dev_close"} /\ ret.vid = vid
       /\ pend = <<>>)
      => \/ RelayPopulated(privs[PrivOf(vid)].relay)
         \/ RelayEmpty(privs[PrivOf(vid)].relay)

C18_Step ==
    \A tid \in DOMAIN thr \cap DOMAIN thr' :
      LET t == thr[tid]
          u == thr'[tid]
      IN  \* an interrupted epoll_wait: the thread waits again, nothing is
          \* written
          /\ (t.pc = "wait" /\ u.err # t.err /\ u.err = "EINTR") =>
                /\ u = [t EXCEPT !.err = "EINTR"]
                /\ UNCHANGED <<privs, kick, mapped, crashed, ret, log>>
          \* any other errno of epoll_wait ends the thread, and nothing else
          \* but a cancellation does
          /\ (t.pc = "wait" /\ u.err # t.err /\ u.err \notin {"", "EINTR"}) =>
                u.pc = "exit"
          /\ (t.pc = "wait" /\ u.pc = "exit" /\ ~t.cancel) =>
                u.err \in {"EINVAL", "EBADF"}
          \* an interrupted or would-block read: the thread reads the same
          \* descriptor again; no caller sees it
          /\ (t.pc = "drain" /\ u.err # t.err
                /\ u.err \in {"EINTR", "EWOULDBLOCK", "EAGAIN"}) =>
                /\ u = [t EXCEPT !.err = u.err]
                /\ UNCHANGED <<privs, kick, mapped, crashed, ret, log>>
          /\ (t.pc = "drain" /\ u.pc = "exit") => t.cancel

\* C18: relay error policy. An epoll_wait interrupted by a signal (EINTR)
\* is called again without a doorbell write and never ends the relay
\* thread; any other epoll_wait error ends it. A read of a kick descriptor
\* that is interrupted or would block is repeated inside the thread: it
\* never ends the thread and changes nothing a caller of the driver sees.
C18_ErrorPolicy == [][C18_Step]_vars

\* a relay thread whose read found the counter drained by the other relay
\* thread is still reading the same descriptor
C18_Witness ==
    \E tid \in DOMAIN thr :
      /\ thr[tid].pc = "drain" /\ thr[tid].err = "EAGAIN"
      /\ kick[EventKickFd(thr[tid].events[thr[tid].i + 1])] = 0

\* the relay is not, or no longer, Running: the process was terminated,
\* or a relay thread has returned or is being cancelled (the model follows
\* a kick counter only while a thread has its descriptor registered)
NoRelayRunning ==
    crashed \/ \E tid \in DOMAIN thr : thr[tid].pc = "exit" \/ thr[tid].cancel

\* a relay thread has just written q to the doorbell
Written(q) ==
    \E tid \in DOMAIN thr :
      /\ thr[tid].pc = "loop"
      /\ thr[tid].wrote # <<>>
      /\ thr[tid].wrote[Len(thr[tid].wrote)].val = q

C19_Served ==
    \A vid \in Vids, q \in 0..(MaxVring - 1) :
      (kick[KickFd(vid, q)] > 0) ~> (Written(q) \/ NoRelayRunning)

C19_DrainEnds ==
    \A tid \in Tids :
      (tid \in DOMAIN thr /\ thr[tid].pc = "drain")
        ~> (tid \notin DOMAIN thr \/ thr[tid].pc # "drain" \/ crashed)

\* C19: no kick is lost. Under fair scheduling of the relay threads, every
\* kick counted on a registered kick descriptor of vring q is eventually
\* followed by a doorbell write of q, unless the relay stops running; and
\* the read loop of a ready descriptor is always left, also when the read
\* finds the counter already drained.
C19_NoKickLost == C19_Served /\ C19_DrainEnds

\* C20: registration matches the bound session. The kick descriptors a
\* relay thread has registered when it starts to wait are exactly those of
\* vrings 0..N-1 of the session its context was configured for (priv->vid,
\* N that session's vring count), also when the device id differs from the
\* session id; each descriptor's tag carries the index of its vring, and
\* that index is the value written to the doorbell.
C20_RegistersBoundSession ==
    \A tid \in DOMAIN thr :
      LET t == thr[tid]
          vid == privs[t.priv].vid
      IN  Working(t) =>
            /\ t.regs = {EventData(q, KickFd(vid, q)) :
                            q \in 0..(rte_vhost_get_vring_num(vid) - 1)}
            /\ \A k \in 1..Len(t.wrote) :
                  /\ t.events[k] \in t.regs
                  /\ t.wrote[k].val = EventQid(t.events[k])

\* C21: slot capacity is respected. For every vring count a session
\* reports, dev_conf and dev_close read and write only virtq elements with
\* an index below VirtqSlots, and a relay thread never passes epoll_wait a
\* maxevents above the VirtqSlots entries of its events array.
C21_SlotCapacity ==
    /\ oob = {}
    /\ \A tid \in DOMAIN thr : thr[tid].q_num <= VirtqSlots

\* C22: destroy targets only live objects. Over any sequence of dev_conf and
\* dev_close calls, every dv_devx_obj_destroy a dev_close issues is of an
\* object that was created and is not yet destroyed: none is of NULL, of
\* the handle of an object destroyed in an earlier cycle, or of a value
\* that is no handle.
C22_DestroysLive ==
    \A k \in 1..Len(log) :
      log[k].op = "destroy" =>
        /\ log[k].res \in {"ok", "fail"}
        /\ log[k].arg \in {ObjHandle(n) : n \in 1..(nextId.obj - 1)}

\* the hardware objects the context at a holds a handle of
ObjectsOf(a) ==
    {privs[a].pd_obj} \cup
    {privs[a].virtq[i].rq_obj : i \in DOMAIN privs[a].virtq}
\* the relay threads created for the context at a that have not returned
WorkersOf(a) ==
    {tid \in DOMAIN thr : thr[tid].priv = a /\ thr[tid].pc # "exit"}

\* C23: per-device resources are unique and owned. Between the calls of any
\* sequence of dev_conf and dev_close (also a dev_conf that follows a
\* dev_conf), every live hardware object is one a context holds the handle
\* of, so that a device has at most one live PD; a device has at most one
\* relay thread, the one relay.tid names, and every mapped doorbell page is
\* the notify_base of a context.
C23_UniqueAndOwned ==
    pend = <<>> =>
      /\ live \subseteq UNION {ObjectsOf(a) : a \in DOMAIN privs}
      /\ mapped \subseteq {privs[a].relay.notify_base : a \in DOMAIN privs}
      /\ \A a \in DOMAIN privs :
           /\ Cardinality(WorkersOf(a)) <= 1
           /\ WorkersOf(a) \subseteq {privs[a].relay.tid}

====
